---- MODULE Spec2Model ----
(***************************************************************************)
(* Model of the playback queue of src/main.py: the per-chat QueueManager,  *)
(* the PlaybackManager calls on the voice-call transport, process_queue    *)
(* and the command / callback / event handlers that drive them.            *)
(*                                                                         *)
(* The program is a single asyncio event loop: a handler runs atomically   *)
(* from one await to the next, and other handlers run while it awaits.     *)
(* Every action below is one such atomic stretch of a handler.  A call of  *)
(* process_queue is an entry of tasks[c] whose pc names the await it is    *)
(* suspended at.                                                           *)
(***************************************************************************)
EXTENDS Integers, Sequences, FiniteSets, Bags, TLC

\* ------------------------------------------------------------------ bounds
\* Config.MAX_QUEUE_SIZE and Config.MAX_DURATION are read from the environment
\* (defaults 100 and 3600); the model runs the configuration MAX_QUEUE_SIZE=2.
MAX_QUEUE_SIZE == 2
MAX_DURATION == 3600

\* The model stops admitting once a queue holds MaxLen songs.
MaxLen == 3
\* At most MaxTasks calls of process_queue are in flight per chat.
MaxTasks == 2
\* A search hands play_command at most MaxResults results (the code cuts at 20).
MaxResults == 2
\* Longest pending queue of the rotation specification.
MaxRotLen == 3
\* Failed downloads followed within one advance of the retry specification.
MaxTries == 4

\* ------------------------------------------------------------------ values
Chats == {1, 2}

\* Song (dataclass): the fields the queue logic reads.
Song(v, d) == [vid |-> v, duration |-> d]
\* Python's None for Optional[Song].
NoSong == Song(0, 0)
\* What the resolver returns in the full specification: a video that may be
\* admitted and one that is too long.
Catalogue == {Song(1, 180), Song(3, 4000)}
\* The songs of the scenario specifications: all within MAX_DURATION.
ShortSongs == {Song(1, 180), Song(2, 200), Song(4, 3600)}

SeqsUpTo(S, n) == UNION {[1..k -> S] : k \in 0..n}

\* A suspended call of process_queue: the await it is at and the song it holds.
Task(p, s) == [pc |-> p, song |-> s]

VARIABLES
  queue,        \* queues[c].queue
  current,      \* queues[c].current
  loop_mode,    \* queues[c].loop_mode
  state,        \* queues[c].state
  call,         \* the transport's group call of the chat
  active_calls, \* keys of the active_calls dict
  tasks,        \* process_queue calls in flight, per chat (a bag)
  last,         \* history: the handler step taken last and its outcome
  fresh,        \* history: current was set and no skip / stream end was accepted since
  afterStop,    \* history: a stop cleared the session and nothing was enqueued since
  probe,        \* history: which handlers last records, and the experiment of a
                \* scenario: the session it began with, the streams started and
                \* the downloads failed since, the song whose download failed last
  disk          \* the download directory, download_cache and the file_path of
                \* the songs, in the specifications that track them

vars == <<queue, current, loop_mode, state, call, active_calls, tasks, last,
          fresh, afterStop, probe, disk>>

\* ------------------------------------------------------------------ history
\* The handlers whose steps last can record.
Ops == {"play", "cbplay", "advance", "stream_end", "kicked", "closed", "refused",
        "pause", "resume", "skip", "cbskip", "stop", "loop", "shuffle", "clean",
        "remove", "reap", "cleanup"}

\* The record of last when no handler has run, or none that is recorded.
NoStep == [op |-> "", chat |-> 0, res |-> "", allLong |-> FALSE, arg |-> 0]

\* The record kept in last for a step of handler o on chat c with outcome r;
\* allLong says that every search result of a play request was longer than
\* MAX_DURATION.  A specification records the handlers in probe.watch; the
\* steps of the others leave the same record.
Did(o, c, r, l) ==
  IF o \in probe.watch
    THEN [op |-> o, chat |-> c, res |-> r, allLong |-> l, arg |-> 0]
    ELSE NoStep
Done(o, c, r) == Did(o, c, r, FALSE)
\* The same for a command with the numeric argument a.
DoneArg(o, c, r, a) == [Done(o, c, r) EXCEPT !.arg = IF o \in probe.watch THEN a ELSE 0]

\* No rotation experiment; last records the handlers in w.
NoRot(w) ==
  [watch |-> w, on |-> FALSE, cur |-> NoSong, queue |-> <<>>, n |-> 0,
   tries |-> 0, failed |-> NoSong, clock |-> FALSE, old |-> {}, enq |-> {}]

\* Time, in the specifications that follow it (probe.clock): probe.old are the
\* chats whose time in active_calls is more than AUTO_LEAVE_DURATION ago,
\* probe.enq (history) the chats that had a song enqueued within the last
\* AUTO_LEAVE_DURATION.  Without the clock any time may have passed.
\* probe after a song was added to the queue of chat c.
Enqueued(c) ==
  IF probe.clock THEN [probe EXCEPT !.enq = @ \cup {c}] ELSE probe

\* probe p after start_playback: active_calls[chat_id] = datetime.now().
Stamped(c, p) ==
  IF p.clock THEN [p EXCEPT !.old = @ \ {c}] ELSE p

\* The experiment of a scenario that begins with current cur and queue q.
Experiment(cur, q) == [NoRot(Ops) EXCEPT !.on = TRUE, !.cur = cur, !.queue = q]

\* ------------------------------------------------------------------ downloads
\* The video ids of the songs.
Vids == {s.vid : s \in Catalogue \cup ShortSongs}

\* disk.files[v]: the file of video v in DOWNLOAD_DIR: "none", or there with
\* an age of at most an hour ("new") or of more ("old").  disk.cache: the keys
\* of download_cache.  disk.paths: the videos whose songs have file_path set.
\* History: disk.how says how process_queue last sought a path ("file_path":
\* the song had one, "cache": download found it in download_cache, "ydl":
\* yt-dlp ran for a video not in download_cache, "again": yt-dlp ran for a
\* video that is in download_cache), disk.hits the videos served so far
\* without yt-dlp.  With disk.tracked false none of this is followed and a
\* download may succeed or fail at any time.
NoDisk ==
  [tracked |-> FALSE, files |-> [v \in Vids |-> "none"], cache |-> {}, paths |-> {},
   how |-> "", hits |-> {}]

\* The directory of a program that has downloaded the videos in had, with the
\* songs of those in held having their file_path, and the files of the videos
\* in left remaining from an earlier run.
DiskOf(had, held, left) ==
  [tracked |-> TRUE,
   files |-> [v \in Vids |-> IF v \in held THEN "new"
                             ELSE IF v \in had \cup left THEN "old" ELSE "none"],
   cache |-> had \cup held,
   paths |-> held,
   how |-> "",
   hits |-> {}]

\* A download that does not enter its file in download_cache.
RegisteredNot(cache, v) == cache

\* YouTubeHandler.download: download_cache[video_id] = path.
Registered(cache, v) == cache \cup {v}

\* A path is on hand only through the song's own file_path.
OnHandPath(v) ==
  disk.files[v] # "none" /\ v \in disk.paths

\* process_queue finds the file of video v without a download (file_path is
\* set and the file exists), or download finds it in download_cache.
OnHand(v) ==
  disk.files[v] # "none" /\ (v \in disk.paths \/ v \in disk.cache)

\* disk after process_queue has got a path for video v: from file_path, from
\* download_cache, or from a download, which leaves a file and registers it.
Downloaded(v) ==
  IF ~disk.tracked THEN disk
  ELSE IF OnHand(v)
    THEN [disk EXCEPT !.how = IF v \in disk.paths THEN "file_path" ELSE "cache",
                      !.hits = @ \cup {v},
                      !.paths = @ \cup {v}]
  ELSE [disk EXCEPT !.files[v] = IF @ = "none" THEN "new" ELSE @,
                    !.cache = Registered(@, v),
                    !.how = IF v \in disk.cache THEN "again" ELSE "ydl",
                    !.paths = @ \cup {v}]

\* disk after a download of video v has returned None: song.file_path = None.
NotDownloaded(v) ==
  IF ~disk.tracked THEN disk
  ELSE [disk EXCEPT !.how = IF v \in disk.cache THEN "again" ELSE "ydl",
                    !.paths = @ \ {v}]

\* ------------------------------------------------------------------ QueueManager
\* A get_next that under SINGLE prefers a queued song to the current one.
GetNextSongSkipping(q, cur, mode) ==
  IF mode = "SINGLE" /\ cur # NoSong /\ q = <<>> THEN cur
  ELSE LET q1 == IF mode = "QUEUE" /\ cur # NoSong THEN Append(q, cur) ELSE q
       IN  IF q1 # <<>> THEN Head(q1) ELSE NoSong

\* A get_next that does not look at current under QUEUE.
GetNextSongQueued(q, cur, mode) ==
  IF mode = "SINGLE" /\ cur # NoSong THEN cur
  ELSE IF q # <<>> THEN Head(q) ELSE NoSong

\* QueueManager.get_next: the song it returns.
GetNextSong(q, cur, mode) ==
  IF mode = "SINGLE" /\ cur # NoSong THEN cur
  ELSE LET q1 == IF mode = "QUEUE" /\ cur # NoSong THEN Append(q, cur) ELSE q
       IN  IF q1 # <<>> THEN Head(q1) ELSE NoSong

\* A get_next that re-inserts the current song at the head under QUEUE.
GetNextQueueHead(q, cur, mode) ==
  IF mode = "SINGLE" /\ cur # NoSong THEN q
  ELSE LET q1 == IF mode = "QUEUE" /\ cur # NoSong THEN <<cur>> \o q ELSE q
       IN  IF q1 # <<>> THEN Tail(q1) ELSE q1

\* A get_next that pops the queue under SINGLE as well.
GetNextQueuePop(q, cur, mode) ==
  LET q1 == IF mode = "QUEUE" /\ cur # NoSong THEN Append(q, cur) ELSE q
  IN  IF q1 # <<>> THEN Tail(q1) ELSE q1

\* QueueManager.get_next: the queue it leaves.
GetNextQueue(q, cur, mode) ==
  IF mode = "SINGLE" /\ cur # NoSong THEN q
  ELSE LET q1 == IF mode = "QUEUE" /\ cur # NoSong THEN Append(q, cur) ELSE q
       IN  IF q1 # <<>> THEN Tail(q1) ELSE q1

\* A remove that counts a negative index from the end, as list.pop does.
RemoveAtWrapping(q, i) ==
  LET j == IF i < 0 THEN Len(q) + i ELSE i
  IN  IF 0 <= j /\ j < Len(q)
        THEN [k \in 1..(Len(q) - 1) |-> IF k <= j THEN q[k] ELSE q[k + 1]]
        ELSE q

\* QueueManager.remove: the queue without position i (0-based), if in range.
RemoveAt(q, i) ==
  IF 0 <= i /\ i < Len(q)
    THEN [k \in 1..(Len(q) - 1) |-> IF k <= i THEN q[k] ELSE q[k + 1]]
    ELSE q

\* A clear() that empties the queue and nothing else.
ClearQueueOnly(c) ==
  /\ queue' = [queue EXCEPT ![c] = <<>>]
  /\ UNCHANGED <<current, state>>

\* A clear() that resets the sessions of all chats.
ClearEvery(c) ==
  /\ queue' = [x \in Chats |-> <<>>]
  /\ current' = [x \in Chats |-> NoSong]
  /\ state' = [x \in Chats |-> "STOPPED"]

\* QueueManager.clear, on chat c.
Clear(c) ==
  /\ queue' = [queue EXCEPT ![c] = <<>>]
  /\ current' = [current EXCEPT ![c] = NoSong]
  /\ state' = [state EXCEPT ![c] = "STOPPED"]

\* The duration test of play_command keeps every result.
AdmissibleAny(s) == TRUE

\* play_command's duration test on one search result.
Admissible(s) == s.duration <= MAX_DURATION

\* ------------------------------------------------------------------ initial state
InitWatching(w) ==
  /\ queue = [c \in Chats |-> <<>>]
  /\ current = [c \in Chats |-> NoSong]
  /\ loop_mode = [c \in Chats |-> "OFF"]
  /\ state = [c \in Chats |-> "STOPPED"]
  /\ call = [c \in Chats |-> "none"]
  /\ active_calls = {}
  /\ tasks = [c \in Chats |-> EmptyBag]
  /\ last = NoStep
  /\ fresh = [c \in Chats |-> FALSE]
  /\ afterStop = [c \in Chats |-> FALSE]
  /\ probe = NoRot(w)
  /\ disk = NoDisk

\* The state after the module is loaded: queues is an empty defaultdict, a
\* session read from it has the defaults of QueueManager.
Init == InitWatching(Ops)

\* process_queue is called once more for chat c.
Spawn(c) ==
  /\ BagCardinality(tasks[c]) < MaxTasks
  /\ tasks' = [tasks EXCEPT ![c] = @ (+) SetToBag({Task("start", NoSong)})]

\* The task tk of chat c moves on to new (or ends, when new is the empty bag).
Step(c, tk, new) ==
  tasks' = [tasks EXCEPT ![c] = (@ (-) SetToBag({tk})) (+) new]

\* ------------------------------------------------------------------ play
\* A refusal that comes after the session was emptied.
RefusedLate(c) ==
  /\ last' = Done("refused", c, "AdminOnly")
  /\ queue' = [queue EXCEPT ![c] = <<>>]
  /\ UNCHANGED <<current, loop_mode, state, call, active_calls, tasks,
                 fresh, afterStop, probe, disk>>

\* is_admin is false: the privileged commands and buttons answer "Admin only".
Refused(c) ==
  /\ last' = Done("refused", c, "AdminOnly")
  /\ UNCHANGED <<queue, current, loop_mode, state, call, active_calls, tasks,
                 fresh, afterStop, probe, disk>>

\* play_command up to its search and join: cooldown, usage, no results,
\* cannot join.  Nothing of the session is touched.
PlayEarlyReturn(c) ==
  /\ last' = Done("play", c, "Dropped")
  /\ UNCHANGED <<queue, current, loop_mode, state, call, active_calls, tasks,
                 fresh, afterStop, probe, disk>>

\* play_command from the capacity test to the call of process_queue.
PlayCommand(c) ==
  \E results \in SeqsUpTo(Catalogue, MaxResults) \ {<<>>} :
    LET added == SelectSeq(results, Admissible)
        long == \A i \in 1..Len(results) : results[i].duration > MAX_DURATION
    IN  IF Len(queue[c]) >= MAX_QUEUE_SIZE
          THEN /\ last' = Did("play", c, "QueueFull", long)
               /\ UNCHANGED <<queue, current, loop_mode, state, call,
                              active_calls, tasks, fresh, afterStop, probe, disk>>
        ELSE IF added = <<>>
          THEN /\ last' = Did("play", c, "DurationExceeded", long)
               /\ UNCHANGED <<queue, current, loop_mode, state, call,
                              active_calls, tasks, fresh, afterStop, probe, disk>>
        ELSE /\ Len(queue[c]) + Len(added) <= MaxLen
             /\ queue' = [queue EXCEPT ![c] = @ \o added]
             /\ afterStop' = [afterStop EXCEPT ![c] = FALSE]
             /\ IF state[c] = "STOPPED"
                  THEN /\ Spawn(c)
                       /\ last' = Did("play", c, "Loading", long)
                  ELSE /\ last' = Did("play", c, "Enqueued", long)
                       /\ UNCHANGED tasks
             /\ probe' = Enqueued(c)
             /\ UNCHANGED <<current, loop_mode, state, call, active_calls,
                            fresh, disk>>

\* callback_handler, action "play": the button of a search result.  The song
\* is added with no test; on a STOPPED session join_voice_chat and then
\* process_queue follow, and a join that raises ends the handler with the song
\* left in the queue.
CallbackPlay(c) ==
  \/ Refused(c)
  \/ /\ last' = Done("cbplay", c, "NoInfo")
     /\ UNCHANGED <<queue, current, loop_mode, state, call, active_calls,
                    tasks, fresh, afterStop, probe, disk>>
  \/ \E s \in Catalogue :
       /\ Len(queue[c]) < MaxLen
       /\ queue' = [queue EXCEPT ![c] = Append(@, s)]
       /\ afterStop' = [afterStop EXCEPT ![c] = FALSE]
       /\ IF state[c] = "STOPPED"
            THEN \/ /\ Spawn(c)
                    /\ last' = Did("cbplay", c, "Playing", s.duration > MAX_DURATION)
                 \/ /\ last' = Did("cbplay", c, "JoinError", s.duration > MAX_DURATION)
                    /\ UNCHANGED tasks
            ELSE /\ last' = Did("cbplay", c, "Enqueued", s.duration > MAX_DURATION)
                 /\ UNCHANGED tasks
       /\ probe' = Enqueued(c)
       /\ UNCHANGED <<current, loop_mode, state, call, active_calls, fresh, disk>>

\* ------------------------------------------------------------------ transport
\* What the transport's call of a chat becomes when a stream is started, paused,
\* resumed; a chat that is in no call has call "none".
AfterPause(k) == IF k = "streaming" THEN "paused" ELSE k
AfterResume(k) == IF k = "paused" THEN "streaming" ELSE k

\* ------------------------------------------------------------------ process_queue
\* process_queue from its entry to its first await: get_next, then either the
\* download or, with nothing to play, state = STOPPED and the await of stop().
AdvStart(c) ==
  \E tk \in BagToSet(tasks[c]) :
    /\ tk.pc = "start"
    /\ LET song == GetNextSong(queue[c], current[c], loop_mode[c])
       IN  /\ queue' = [queue EXCEPT
                          ![c] = GetNextQueue(queue[c], current[c], loop_mode[c])]
           /\ IF song = NoSong
                THEN /\ state' = [state EXCEPT ![c] = "STOPPED"]
                     /\ Step(c, tk, SetToBag({Task("leave", NoSong)}))
                     /\ last' = Done("advance", c, "QueueEmpty")
                ELSE /\ Step(c, tk, SetToBag({Task("resolve", song)}))
                     /\ last' = Done("advance", c, "Dequeued")
                     /\ UNCHANGED state
    /\ UNCHANGED <<current, loop_mode, call, active_calls, fresh, afterStop, probe, disk>>

\* process_queue with no song: PlaybackManager.stop returns.  The leave fails
\* when the chat is in no call, and may fail when it is; a failed leave skips
\* the clear().
AdvLeave(c) ==
  \E tk \in BagToSet(tasks[c]), leaveOk \in BOOLEAN :
    /\ tk.pc = "leave"
    /\ Step(c, tk, EmptyBag)
    /\ IF leaveOk /\ call[c] # "none"
         THEN /\ call' = [call EXCEPT ![c] = "none"]
              /\ active_calls' = active_calls \ {c}
              /\ Clear(c)
              /\ fresh' = [fresh EXCEPT ![c] = FALSE]
              /\ last' = Done("advance", c, "QueueFinished")
         ELSE /\ last' = Done("advance", c, "LeaveFailed")
              /\ UNCHANGED <<queue, current, state, call, active_calls, fresh>>
    /\ UNCHANGED <<loop_mode, afterStop, probe, disk>>

\* process_queue: YouTubeHandler.download returns a path, or None; with None
\* the failure is reported and process_queue calls itself.
AdvResolve(c) ==
  \E tk \in BagToSet(tasks[c]), ok \in BOOLEAN :
    /\ tk.pc = "resolve"
    /\ (disk.tracked /\ OnHand(tk.song.vid)) => ok
    /\ IF ok
         THEN /\ Step(c, tk, SetToBag({Task("stream", tk.song)}))
              /\ last' = Done("advance", c, "Resolved")
              /\ disk' = Downloaded(tk.song.vid)
              /\ UNCHANGED probe
         ELSE /\ probe.on => probe.tries < MaxTries
              /\ disk' = NotDownloaded(tk.song.vid)
              /\ Step(c, tk, SetToBag({Task("start", NoSong)}))
              /\ last' = Done("advance", c, "ItemSkipped")
              /\ probe' = IF probe.on
                            THEN [probe EXCEPT !.tries = @ + 1, !.failed = tk.song]
                            ELSE probe
    /\ UNCHANGED <<queue, current, loop_mode, state, call, active_calls, fresh,
                   afterStop>>

\* process_queue: PlaybackManager.start_playback returns (current and state are
\* set) or raises (the handler logs the error and ends).
AdvStream(c) ==
  \E tk \in BagToSet(tasks[c]), ok \in BOOLEAN :
    /\ tk.pc = "stream"
    /\ Step(c, tk, EmptyBag)
    /\ IF ok
         THEN /\ call' = [call EXCEPT ![c] = "streaming"]
              /\ active_calls' = active_calls \cup {c}
              /\ current' = [current EXCEPT ![c] = tk.song]
              /\ state' = [state EXCEPT ![c] = "PLAYING"]
              /\ fresh' = [fresh EXCEPT ![c] = TRUE]
              /\ probe' = Stamped(c, IF probe.on THEN [probe EXCEPT !.n = @ + 1]
                                                  ELSE probe)
              /\ last' = Done("advance", c, "NowPlaying")
         ELSE /\ last' = Done("advance", c, "PlaybackError")
              /\ UNCHANGED <<call, active_calls, current, state, fresh, probe>>
    /\ UNCHANGED <<queue, loop_mode, afterStop, disk>>

\* ------------------------------------------------------------------ transport events
\* on_stream_end: the stream of the chat ran out; after its sleep the handler
\* calls process_queue.
StreamEnded(c) ==
  /\ call[c] = "streaming"
  /\ call' = [call EXCEPT ![c] = "ended"]
  /\ Spawn(c)
  /\ fresh' = [fresh EXCEPT ![c] = FALSE]
  /\ last' = Done("stream_end", c, "")
  /\ UNCHANGED <<queue, current, loop_mode, state, active_calls, afterStop, probe, disk>>

\* on_kicked: the assistant was removed from the call.
Kicked(c) ==
  /\ call[c] # "none"
  /\ call' = [call EXCEPT ![c] = "none"]
  /\ Clear(c)
  /\ active_calls' = active_calls \ {c}
  /\ fresh' = [fresh EXCEPT ![c] = FALSE]
  /\ last' = Done("kicked", c, "")
  /\ UNCHANGED <<loop_mode, tasks, afterStop, probe, disk>>

\* on_closed_vc: the voice chat was closed.
ClosedVC(c) ==
  /\ call[c] # "none"
  /\ call' = [call EXCEPT ![c] = "none"]
  /\ Clear(c)
  /\ active_calls' = active_calls \ {c}
  /\ fresh' = [fresh EXCEPT ![c] = FALSE]
  /\ last' = Done("closed", c, "")
  /\ UNCHANGED <<loop_mode, tasks, afterStop, probe, disk>>

\* ------------------------------------------------------------------ commands
\* The handlers below are reached from a command and from the button of the
\* same name; both test is_admin first.
\* A pause that marks the session PAUSED before the transport has answered.
PauseMarking(c) ==
  \/ Refused(c)
  \/ \E ok \in BOOLEAN :
         /\ state' = [state EXCEPT ![c] = "PAUSED"]
         /\ IF ok /\ call[c] # "none"
              THEN /\ call' = [call EXCEPT ![c] = AfterPause(@)]
                   /\ last' = Done("pause", c, "Paused")
              ELSE /\ last' = Done("pause", c, "Error")
                   /\ UNCHANGED call
         /\ UNCHANGED <<queue, current, loop_mode, active_calls, tasks, fresh,
                        afterStop, probe, disk>>

\* pause_command / button "pause": PlaybackManager.pause.  pause_stream raises
\* when the chat is in no call, and may raise when it is.
Pause(c) ==
  \/ Refused(c)
  \/ \E ok \in BOOLEAN :
         /\ IF ok /\ call[c] # "none"
              THEN /\ call' = [call EXCEPT ![c] = AfterPause(@)]
                   /\ state' = [state EXCEPT ![c] = "PAUSED"]
                   /\ last' = Done("pause", c, "Paused")
              ELSE /\ last' = Done("pause", c, "Error")
                   /\ UNCHANGED <<call, state>>
         /\ UNCHANGED <<queue, current, loop_mode, active_calls, tasks, fresh,
                        afterStop, probe, disk>>

\* resume_command / button "resume": PlaybackManager.resume.
Resume(c) ==
  \/ Refused(c)
  \/ \E ok \in BOOLEAN :
         /\ IF ok /\ call[c] # "none"
              THEN /\ call' = [call EXCEPT ![c] = AfterResume(@)]
                   /\ state' = [state EXCEPT ![c] = "PLAYING"]
                   /\ last' = Done("resume", c, "Resumed")
              ELSE /\ last' = Done("resume", c, "Error")
                   /\ UNCHANGED <<call, state>>
         /\ UNCHANGED <<queue, current, loop_mode, active_calls, tasks, fresh,
                        afterStop, probe, disk>>

\* skip_command up to its call of process_queue.
SkipCommand(c) ==
  \/ Refused(c)
  \/ IF current[c] = NoSong
      THEN /\ last' = Done("skip", c, "NothingPlaying")
           /\ UNCHANGED <<queue, current, loop_mode, state, call, active_calls,
                          tasks, fresh, afterStop, probe, disk>>
    ELSE /\ Spawn(c)
         /\ fresh' = [fresh EXCEPT ![c] = FALSE]
         /\ last' = Done("skip", c, "Skipped")
         /\ UNCHANGED <<queue, current, loop_mode, state, call, active_calls,
                        afterStop, probe, disk>>

\* callback_handler, action "skip", up to its call of process_queue.
SkipButton(c) ==
  \/ Refused(c)
  \/     /\ Spawn(c)
         /\ fresh' = [fresh EXCEPT ![c] = FALSE]
         /\ last' = Done("cbskip", c, "Skipped")
         /\ UNCHANGED <<queue, current, loop_mode, state, call, active_calls,
                        afterStop, probe, disk>>

\* stop_command / button "stop": PlaybackManager.stop.  The pop of active_calls
\* and the clear() follow the leave inside one try: a leave that raises skips
\* both, and the command still answers "Stopped".
Stop(c) ==
  \/ Refused(c)
  \/ \E leaveOk \in BOOLEAN :
         /\ IF leaveOk /\ call[c] # "none"
              THEN /\ call' = [call EXCEPT ![c] = "none"]
                   /\ active_calls' = active_calls \ {c}
                   /\ Clear(c)
                   /\ fresh' = [fresh EXCEPT ![c] = FALSE]
                   /\ afterStop' = [afterStop EXCEPT ![c] = TRUE]
                   /\ last' = Done("stop", c, "Stopped")
              ELSE /\ last' = Done("stop", c, "StoppedLeaveFailed")
                   /\ UNCHANGED <<queue, current, state, call, active_calls,
                                  fresh, afterStop>>
         /\ UNCHANGED <<loop_mode, tasks, probe, disk>>

\* A loop command that switches between OFF and SINGLE.
NextLoopToggle(mode) ==
  IF mode = "OFF" THEN "SINGLE" ELSE "OFF"

\* The loop mode after mode in the cycle of loop_command.
NextLoop(mode) ==
  IF mode = "OFF" THEN "SINGLE" ELSE IF mode = "SINGLE" THEN "QUEUE" ELSE "OFF"

\* loop_command / button "loop".
Loop(c) ==
  \/ Refused(c)
  \/     /\ loop_mode' = [loop_mode EXCEPT ![c] = NextLoop(@)]
         /\ last' = Done("loop", c, loop_mode'[c])
         /\ UNCHANGED <<queue, current, state, call, active_calls, tasks, fresh,
                        afterStop, probe, disk>>

\* A shuffle that loses the head of the queue.
ShuffleLosing(c) ==
  \/ Refused(c)
  \/ /\ queue[c] # <<>>
     /\ queue' = [queue EXCEPT ![c] = Tail(@)]
     /\ last' = Done("shuffle", c, "Shuffled")
     /\ UNCHANGED <<current, loop_mode, state, call, active_calls, tasks,
                    fresh, afterStop, probe, disk>>

\* shuffle_command / button "shuffle": random.shuffle yields any order.
Shuffle(c) ==
  \/ Refused(c)
  \/ IF queue[c] = <<>>
      THEN /\ last' = Done("shuffle", c, "QueueEmpty")
           /\ UNCHANGED <<queue, current, loop_mode, state, call, active_calls,
                          tasks, fresh, afterStop, probe, disk>>
    ELSE /\ \E p \in Permutations(1..Len(queue[c])) :
              queue' = [queue EXCEPT ![c] = [i \in 1..Len(@) |-> @[p[i]]]]
         /\ last' = Done("shuffle", c, "Shuffled")
         /\ UNCHANGED <<current, loop_mode, state, call, active_calls, tasks,
                        fresh, afterStop, probe, disk>>

\* A clean that resets the session as clear() does.
CleanSession(c) ==
  \/ Refused(c)
  \/ IF queue[c] = <<>>
      THEN /\ last' = Done("clean", c, "QueueEmpty")
           /\ UNCHANGED <<queue, current, loop_mode, state, call, active_calls,
                          tasks, fresh, afterStop, probe, disk>>
    ELSE /\ Clear(c)
         /\ last' = Done("clean", c, "Cleared")
         /\ UNCHANGED <<loop_mode, call, active_calls, tasks,
                        fresh, afterStop, probe, disk>>

\* clean_command.
Clean(c) ==
  \/ Refused(c)
  \/ IF queue[c] = <<>>
      THEN /\ last' = Done("clean", c, "QueueEmpty")
           /\ UNCHANGED <<queue, current, loop_mode, state, call, active_calls,
                          tasks, fresh, afterStop, probe, disk>>
    ELSE /\ queue' = [queue EXCEPT ![c] = <<>>]
         /\ last' = Done("clean", c, "Cleared")
         /\ UNCHANGED <<current, loop_mode, state, call, active_calls, tasks,
                        fresh, afterStop, probe, disk>>

\* remove_command with a numeric argument pos (the user's 1-based position).
Remove(c) ==
  \/ Refused(c)
  \/ \E pos \in 0..(MaxLen + 1) :
         /\ queue' = [queue EXCEPT ![c] = RemoveAt(@, pos - 1)]
         /\ last' = DoneArg("remove", c,
                            IF 0 <= pos - 1 /\ pos - 1 < Len(queue[c])
                              THEN "Removed" ELSE "InvalidPosition", pos)
         /\ UNCHANGED <<current, loop_mode, state, call, active_calls, tasks,
                        fresh, afterStop, probe, disk>>

\* ------------------------------------------------------------------ background tasks
\* auto_leave_inactive, the selection of a sweep: chat c is in active_calls, its
\* state is STOPPED and its join time is more than AUTO_LEAVE_DURATION ago.
\* The chat then waits in the sweep's list for its PlaybackManager.stop.
ReapSelect(c) ==
  /\ c \in active_calls
  /\ state[c] = "STOPPED"
  /\ probe.clock => c \in probe.old
  /\ \A tk \in BagToSet(tasks[c]) : tk.pc # "reap"
  /\ BagCardinality(tasks[c]) < MaxTasks
  /\ tasks' = [tasks EXCEPT ![c] = @ (+) SetToBag({Task("reap", NoSong)})]
  /\ last' = Done("reap", c, "Selected")
  /\ UNCHANGED <<queue, current, loop_mode, state, call, active_calls, fresh,
                 afterStop, probe, disk>>

\* auto_leave_inactive, the stop of a selected chat: PlaybackManager.stop
\* returns and "Left due to inactivity" is sent, whether or not the leave
\* raised inside stop.
ReapStop(c) ==
  \E tk \in BagToSet(tasks[c]), leaveOk \in BOOLEAN :
    /\ tk.pc = "reap"
    /\ Step(c, tk, EmptyBag)
    /\ IF leaveOk /\ call[c] # "none"
         THEN /\ call' = [call EXCEPT ![c] = "none"]
              /\ active_calls' = active_calls \ {c}
              /\ Clear(c)
              /\ fresh' = [fresh EXCEPT ![c] = FALSE]
              /\ last' = Done("reap", c, "Left")
         ELSE /\ last' = Done("reap", c, "LeftLeaveFailed")
              /\ UNCHANGED <<queue, current, state, call, active_calls, fresh>>
    /\ UNCHANGED <<loop_mode, afterStop, probe, disk>>

\* More than AUTO_LEAVE_DURATION passes.
Tick ==
  /\ probe.clock
  /\ probe' = [probe EXCEPT !.old = active_calls, !.enq = {}]
  /\ UNCHANGED <<queue, current, loop_mode, state, call, active_calls, tasks,
                 last, fresh, afterStop, disk>>

\* An hour passes for the file of video v.
Age(v) ==
  /\ disk.tracked
  /\ disk.files[v] = "new"
  /\ disk' = [disk EXCEPT !.files[v] = "old"]
  /\ UNCHANGED <<queue, current, loop_mode, state, call, active_calls, tasks,
                 last, fresh, afterStop, probe>>

\* The file of video v is removed from outside the program: download and
\* process_queue test os.path.exists for this.
Lost(v) ==
  /\ disk.tracked
  /\ disk.files[v] # "none"
  /\ disk' = [disk EXCEPT !.files[v] = "none"]
  /\ UNCHANGED <<queue, current, loop_mode, state, call, active_calls, tasks,
                 last, fresh, afterStop, probe>>

\* auto_cleanup, one pass over DOWNLOAD_DIR: every file older than an hour
\* whose video id is no key of download_cache is removed.
Cleanup ==
  /\ disk.tracked
  /\ disk' = [disk EXCEPT !.files =
                [v \in Vids |-> IF @[v] = "old" /\ v \notin disk.cache
                                  THEN "none" ELSE @[v]]]
  /\ last' = Done("cleanup", 0, "Cleaned")
  /\ UNCHANGED <<queue, current, loop_mode, state, call, active_calls, tasks,
                 fresh, afterStop, probe>>

\* ------------------------------------------------------------------ specification
\* The specifications of the commands do not track the download directory:
\* there a download may fail whenever it is made, which covers what
\* auto_cleanup can do to it.
NextOn(cs) ==
  \E c \in cs :
    \/ PlayEarlyReturn(c)
    \/ PlayCommand(c)
    \/ CallbackPlay(c)
    \/ AdvStart(c)
    \/ AdvLeave(c)
    \/ AdvResolve(c)
    \/ AdvStream(c)
    \/ StreamEnded(c)
    \/ Kicked(c)
    \/ ClosedVC(c)
    \/ Pause(c)
    \/ Resume(c)
    \/ SkipCommand(c)
    \/ SkipButton(c)
    \/ Stop(c)
    \/ Loop(c)
    \/ Shuffle(c)
    \/ Clean(c)
    \/ Remove(c)
    \/ ReapSelect(c)
    \/ ReapStop(c)

\* One conversation in use.
Next == NextOn({1})

Spec == Init /\ [][Next]_vars

\* Admission: last records the steps of play_command alone, and the commands
\* that only reorder the queue or take one song out of it are left out.
InitAdmit == InitWatching({"play"})

NextAdmit ==
  \/ PlayEarlyReturn(1)
  \/ PlayCommand(1)
  \/ CallbackPlay(1)
  \/ AdvStart(1)
  \/ AdvLeave(1)
  \/ AdvResolve(1)
  \/ AdvStream(1)
  \/ StreamEnded(1)
  \/ Kicked(1)
  \/ ClosedVC(1)
  \/ Pause(1)
  \/ Resume(1)
  \/ SkipCommand(1)
  \/ SkipButton(1)
  \/ Stop(1)
  \/ Loop(1)
  \/ Clean(1)

SpecAdmit == InitAdmit /\ [][NextAdmit]_vars

\* ------------------------------------------------------------------ scenarios
\* A session that is playing cur with q pending under loop mode m: chat 1 after
\* plays of admissible songs (and loop commands), every advance having succeeded.
Playing(cur, q, m) ==
  /\ queue = [c \in Chats |-> IF c = 1 THEN q ELSE <<>>]
  /\ current = [c \in Chats |-> IF c = 1 THEN cur ELSE NoSong]
  /\ loop_mode = [c \in Chats |-> IF c = 1 THEN m ELSE "OFF"]
  /\ state = [c \in Chats |-> IF c = 1 THEN "PLAYING" ELSE "STOPPED"]
  /\ call = [c \in Chats |-> IF c = 1 THEN "streaming" ELSE "none"]
  /\ active_calls = {1}
  /\ tasks = [c \in Chats |-> EmptyBag]
  /\ last = NoStep
  /\ fresh = [c \in Chats |-> FALSE]
  /\ afterStop = [c \in Chats |-> FALSE]

\* Skip and stream end while a session plays: the triggers of process_queue
\* and its steps, with no other command.
InitRace ==
  \E cur \in ShortSongs, q \in SeqsUpTo(ShortSongs, MAX_QUEUE_SIZE),
     m \in {"OFF", "SINGLE", "QUEUE"} :
    /\ Playing(cur, q, m)
    /\ probe = NoRot(Ops)
    /\ disk = NoDisk

\* A manual skip arrives while no advance runs, or while a stream end is handled.
RaceSkip == tasks[1] = EmptyBag \/ call[1] = "ended"

NextRace ==
  \/ StreamEnded(1)
  \/ RaceSkip /\ SkipCommand(1)
  \/ RaceSkip /\ SkipButton(1)
  \/ AdvStart(1)
  \/ AdvResolve(1)
  \/ AdvStream(1)
  \/ AdvLeave(1)

SpecRace == InitRace /\ [][NextRace]_vars

\* Rotation: under QUEUE, one advance after the other, each started by a skip or
\* a stream end once the one before has set current, every download and every
\* stream start succeeding, until as many songs were started as the session held.
InitRot ==
  \E cur \in ShortSongs, q \in SeqsUpTo(ShortSongs, MaxRotLen) :
    /\ Playing(cur, q, "QUEUE")
    /\ probe = Experiment(cur, q)
    /\ disk = NoDisk

RotIdle == tasks[1] = EmptyBag /\ probe.n < Len(probe.queue) + 1

NextRot ==
  \/ RotIdle /\ StreamEnded(1)
  \/ RotIdle /\ SkipCommand(1) /\ last'.res = "Skipped"
  \/ AdvStart(1)
  \/ AdvResolve(1) /\ last'.res = "Resolved"
  \/ AdvStream(1) /\ last'.res = "NowPlaying"

SpecRot == InitRot /\ [][NextRot]_vars

\* The callers of clear() on a session that plays: stop, the two transport
\* events and the advance that finds nothing to play, with pause and the
\* triggers of process_queue to vary the state they find.
NextClear ==
  \/ NextRace
  \/ Kicked(1)
  \/ ClosedVC(1)
  \/ Stop(1)
  \/ Pause(1)

SpecClear == InitRace /\ [][NextClear]_vars

\* The commands that edit the pending queue of a session that plays, with the
\* stream ends and the steps of process_queue to vary the queue they find.
NextEdit ==
  \/ Shuffle(1)
  \/ Remove(1)
  \/ Clean(1)
  \/ Pause(1)
  \/ StreamEnded(1)
  \/ AdvStart(1)
  \/ AdvResolve(1)
  \/ AdvStream(1)
  \/ AdvLeave(1)

SpecEdit == InitRace /\ [][NextEdit]_vars

\* Two conversations that both play a song with another one queued: stream
\* ends, the steps of process_queue with their failures, stops, kicks and plays
\* on a full queue in either of them.
InitTwo ==
  /\ queue = [c \in Chats |-> <<Song(2, 200), Song(4, 3600)>>]
  /\ current = [c \in Chats |-> Song(1, 180)]
  /\ loop_mode = [c \in Chats |-> IF c = 1 THEN "QUEUE" ELSE "OFF"]
  /\ state = [c \in Chats |-> "PLAYING"]
  /\ call = [c \in Chats |-> "streaming"]
  /\ active_calls = Chats
  /\ tasks = [c \in Chats |-> EmptyBag]
  /\ last = NoStep
  /\ fresh = [c \in Chats |-> FALSE]
  /\ afterStop = [c \in Chats |-> FALSE]
  /\ probe = NoRot(Ops)
  /\ disk = NoDisk

NextTwo ==
  \E c \in Chats :
    \/ PlayCommand(c) /\ last'.res = "QueueFull"
    \/ tasks[c] = EmptyBag /\ StreamEnded(c)
    \/ AdvStart(c)
    \/ AdvResolve(c)
    \/ AdvStream(c)
    \/ AdvLeave(c)
    \/ Kicked(c)
    \/ Stop(c)

SpecTwo == InitTwo /\ [][NextTwo]_vars

\* The sweeps of auto_leave_inactive on a session that plays its last songs:
\* stream ends and the steps of process_queue, the two steps of a sweep, and
\* plays, pauses and resumes in between.
NextReap ==
  \/ ReapSelect(1)
  \/ ReapStop(1)
  \/ StreamEnded(1)
  \/ AdvStart(1)
  \/ AdvResolve(1)
  \/ AdvStream(1)
  \/ AdvLeave(1)
  \/ PlayCommand(1)
  \/ Pause(1)
  \/ Resume(1)

SpecReap == InitRace /\ [][NextReap]_vars

\* The loop command on a session that plays, with the triggers and the steps
\* of process_queue.
NextLoopRace ==
  \/ NextRace
  \/ Loop(1)

SpecLoop == InitRace /\ [][NextLoopRace]_vars

\* Skips under SINGLE: a session that plays cur under SINGLE with q pending,
\* the skips (command and button) and the steps of the advances they start,
\* until MaxRotLen streams were started.
InitSingle ==
  \E cur \in ShortSongs, q \in SeqsUpTo(ShortSongs, MAX_QUEUE_SIZE) :
    /\ Playing(cur, q, "SINGLE")
    /\ probe = Experiment(cur, q)
    /\ disk = NoDisk

SingleMore == probe.n < MaxRotLen

NextSingle ==
  \/ SingleMore /\ SkipCommand(1)
  \/ SingleMore /\ SkipButton(1)
  \/ AdvStart(1)
  \/ AdvResolve(1)
  \/ AdvStream(1)

SpecSingle == InitSingle /\ [][NextSingle]_vars

\* The sweeps of auto_leave_inactive with the clock: a session that has just
\* started to play, and the passing of time.
InitIdle ==
  \E cur \in ShortSongs, q \in SeqsUpTo(ShortSongs, MAX_QUEUE_SIZE),
     m \in {"OFF", "SINGLE", "QUEUE"} :
    /\ Playing(cur, q, m)
    /\ probe = [NoRot(Ops) EXCEPT !.clock = TRUE]
    /\ disk = NoDisk

NextIdle ==
  \/ NextReap
  \/ Tick

SpecIdle == InitIdle /\ [][NextIdle]_vars

\* The download directory of a session that plays: the file of the current
\* song was downloaded and is in download_cache, files of other videos may be
\* left from an earlier run of the program.  From there stream ends, the steps
\* of process_queue, the passing of time and the passes of auto_cleanup.
InitCache ==
  \E cur \in ShortSongs, q \in SeqsUpTo(ShortSongs, MAX_QUEUE_SIZE),
     m \in {"OFF", "SINGLE", "QUEUE"}, left \in SUBSET Vids :
    /\ cur.vid \notin left
    /\ Playing(cur, q, m)
    /\ probe = NoRot(Ops)
    /\ disk = DiskOf({}, {cur.vid}, left)

NextCache ==
  \/ tasks[1] = EmptyBag /\ StreamEnded(1)
  \/ AdvStart(1)
  \/ AdvResolve(1)
  \/ AdvStream(1)
  \/ AdvLeave(1)
  \/ \E v \in Vids : Age(v)
  \/ Cleanup

SpecCache == InitCache /\ [][NextCache]_vars

\* Repeated downloads: a session that plays, the program having downloaded
\* other videos before whose songs are gone from the session; files may
\* disappear.
InitFetch ==
  \E cur \in ShortSongs, q \in SeqsUpTo(ShortSongs, MAX_QUEUE_SIZE),
     m \in {"OFF", "SINGLE", "QUEUE"}, had \in SUBSET Vids :
    /\ cur.vid \notin had
    /\ Playing(cur, q, m)
    /\ probe = NoRot(Ops)
    /\ disk = DiskOf(had, {cur.vid}, {})

NextFetch ==
  \/ NextCache
  \/ \E v \in Vids : Lost(v)

SpecFetch == InitFetch /\ [][NextFetch]_vars

\* One advance after the other on a session that was STOPPED when songs were
\* queued: the first process_queue is the one play_command called, each later
\* one is started by a stream end or a skip command once no call is in flight.
InitSeq ==
  \E q \in SeqsUpTo(ShortSongs, MAX_QUEUE_SIZE) \ {<<>>},
     m \in {"OFF", "SINGLE", "QUEUE"} :
    /\ queue = [c \in Chats |-> IF c = 1 THEN q ELSE <<>>]
    /\ loop_mode = [c \in Chats |-> IF c = 1 THEN m ELSE "OFF"]
    /\ tasks = [c \in Chats |->
                  IF c = 1 THEN SetToBag({Task("start", NoSong)}) ELSE EmptyBag]
    /\ current = [c \in Chats |-> NoSong]
    /\ state = [c \in Chats |-> "STOPPED"]
    /\ call = [c \in Chats |-> "none"]
    /\ active_calls = {}
    /\ last = NoStep
    /\ fresh = [c \in Chats |-> FALSE]
    /\ afterStop = [c \in Chats |-> FALSE]
    /\ probe = NoRot(Ops)
    /\ disk = NoDisk

SeqIdle == tasks[1] = EmptyBag

NextSeq ==
  \/ SeqIdle /\ StreamEnded(1)
  \/ SeqIdle /\ SkipCommand(1)
  \/ AdvStart(1)
  \/ AdvResolve(1)
  \/ AdvStream(1)
  \/ AdvLeave(1)

SpecSeq == InitSeq /\ [][NextSeq]_vars

\* A STOPPED session with loop mode OFF on which songs were queued.  Songs q
\* were queued by play commands that each found the session STOPPED and called
\* process_queue: one command with all of q as its results, or one command per
\* song.  From there the stream ends and the steps of process_queue, every
\* download and every stream start succeeding.
SessionQueued(q, m, nt) ==
  /\ queue = [c \in Chats |-> IF c = 1 THEN q ELSE <<>>]
  /\ loop_mode = [c \in Chats |-> IF c = 1 THEN m ELSE "OFF"]
  /\ tasks = [c \in Chats |->
                IF c = 1 THEN [tk \in {Task("start", NoSong)} |-> nt] ELSE EmptyBag]
  /\ current = [c \in Chats |-> NoSong]
  /\ state = [c \in Chats |-> "STOPPED"]
  /\ call = [c \in Chats |-> "none"]
  /\ active_calls = {}
  /\ last = NoStep
  /\ fresh = [c \in Chats |-> FALSE]
  /\ afterStop = [c \in Chats |-> FALSE]

InitFifo ==
  \E q \in SeqsUpTo(ShortSongs, MAX_QUEUE_SIZE) \ {<<>>} :
    \E nt \in {1, Len(q)} :
      /\ SessionQueued(q, "OFF", nt)
      /\ probe = Experiment(NoSong, q)
      /\ disk = NoDisk

NextFifo ==
  \/ StreamEnded(1)
  \/ AdvStart(1)
  \/ AdvResolve(1) /\ last'.res = "Resolved"
  \/ AdvStream(1) /\ last'.res = "NowPlaying"
  \/ AdvLeave(1)

SpecFifo == InitFifo /\ [][NextFifo]_vars

\* One advance and its downloads: on a STOPPED session with songs queued the
\* process_queue that play_command called, on a session that plays the one
\* that a stream end or a skip command starts.  A download fails when the
\* resolver fails and the file of the song is not on disk.
InitRetry ==
  \E q \in SeqsUpTo(ShortSongs, MAX_QUEUE_SIZE), m \in {"OFF", "SINGLE", "QUEUE"} :
    \/ /\ q # <<>>
       /\ SessionQueued(q, m, 1)
       /\ probe = Experiment(NoSong, q)
       /\ disk = NoDisk
    \/ \E cur \in ShortSongs :
         /\ Playing(cur, q, m)
         /\ probe = Experiment(cur, q)
         /\ disk = NoDisk

\* Nothing has happened yet on the session that plays.
RetryIdle == tasks[1] = EmptyBag /\ last.op = ""

NextRetry ==
  \/ RetryIdle /\ StreamEnded(1)
  \/ RetryIdle /\ SkipCommand(1) /\ last'.res = "Skipped"
  \/ AdvStart(1)
  \/ AdvResolve(1)
  \/ AdvStream(1)
  \/ AdvLeave(1)

SpecRetry == InitRetry /\ [][NextRetry]_vars

\* ------------------------------------------------------------------ properties
\* The session fields of chat c are the defaults of clear().
Cleared(c) == state[c] = "STOPPED" /\ current[c] = NoSong /\ queue[c] = <<>>

\* The calls of process_queue of chat c that hold a dequeued song which they
\* have not yet made current.
Advancing(c) == {tk \in BagToSet(tasks[c]) : tk.pc \in {"resolve", "stream"}}

\* C1: in every reachable state the queue of every session holds at most
\* MAX_QUEUE_SIZE songs.
QueueWithinLimit == \A c \in Chats : Len(queue[c]) <= MAX_QUEUE_SIZE

\* C2: whenever no handler of a session is in flight, its current is None
\* exactly if its state is STOPPED.
CurrentIffNotStopped ==
  \A c \in Chats :
    tasks[c] = EmptyBag => (current[c] = NoSong <=> state[c] = "STOPPED")

\* C3: per conversation at most one advance is between its dequeue and its
\* assignment of current.
OneAdvanceAtATime ==
  \A c \in Chats :
    /\ Cardinality(Advancing(c)) <= 1
    /\ \A tk \in Advancing(c) : CopiesIn(tk, tasks[c]) = 1

\* C4: with a skip racing a stream end, a song that an advance made current is
\* replaced by another song only after a skip or a stream end was accepted for
\* it: no started song is passed over unplayed.
NoUnplayedSkipped ==
  [][\A c \in Chats :
       (current'[c] # current[c] /\ current'[c] # NoSong) => ~fresh[c]]_vars

\* C5: once a stop has cleared the session it stays STOPPED with no current and
\* an empty queue until the next enqueue, whatever a pending advance does.
StopForcesStopped == \A c \in Chats : afterStop[c] => Cleared(c)

\* C6: a stop (by an admin) always ends with the session STOPPED, current None
\* and the queue empty, also when the transport's leave fails.
StopAlwaysClears ==
  \A c \in Chats : (last.op = "stop" /\ last.chat = c) => Cleared(c)

\* C7: every song in a queue or current has a duration of at most MAX_DURATION,
\* whichever entry point admitted it.
AdmittedWithinMaxDuration ==
  \A c \in Chats :
    /\ current[c].duration <= MAX_DURATION
    /\ \A i \in 1..Len(queue[c]) : queue[c][i].duration <= MAX_DURATION

\* The session of chat c is left as it was by the step.
SessionUnchanged(c) ==
  /\ queue'[c] = queue[c]
  /\ current'[c] = current[c]
  /\ loop_mode'[c] = loop_mode[c]
  /\ state'[c] = state[c]
  /\ tasks'[c] = tasks[c]

\* C8 (as stated): a play request whose item is longer than MAX_DURATION is
\* rejected with DurationExceeded and leaves the session unchanged.
LongPlayDurationExceeded ==
  [][\A c \in Chats :
       (last'.op = "play" /\ last'.chat = c /\ last'.allLong)
         => last'.res = "DurationExceeded" /\ SessionUnchanged(c)]_vars

\* C8 (amended): a play command whose results are all longer than MAX_DURATION
\* is rejected and leaves the session unchanged; the rejection is QueueFull when
\* the queue already holds MAX_QUEUE_SIZE songs, DurationExceeded otherwise.
LongPlayRejected ==
  [][\A c \in Chats :
       (last'.op = "play" /\ last'.chat = c /\ last'.allLong)
         => /\ last'.res = IF Len(queue[c]) >= MAX_QUEUE_SIZE
                             THEN "QueueFull" ELSE "DurationExceeded"
            /\ SessionUnchanged(c)]_vars

\* A play command with only too long results was answered DurationExceeded.
LongPlayRejectedSeen ==
  last.op = "play" /\ last.allLong /\ last.res = "DurationExceeded"

\* C9: an enqueue attempted on a queue of MAX_QUEUE_SIZE songs or more, by the
\* play command or by the play button, is rejected with QueueFull and leaves
\* queue, current and state unchanged.
FullQueueRejects ==
  [][\A c \in Chats :
       (/\ last'.chat = c
        /\ \/ last'.op = "play" /\ last'.res # "Dropped"
           \/ last'.op = "cbplay" /\ last'.res # "NoInfo"
        /\ Len(queue[c]) >= MAX_QUEUE_SIZE)
         => /\ last'.res = "QueueFull"
            /\ queue'[c] = queue[c]
            /\ current'[c] = current[c]
            /\ state'[c] = state[c]]_vars

\* C10: under loop mode QUEUE, after as many successful advances as the session
\* held songs (the queued ones and the current one), current and the order of
\* the queue are what they were before.
RotationRestores ==
  (probe.on /\ probe.n = Len(probe.queue) + 1)
    => current[1] = probe.cur /\ queue[1] = probe.queue

\* A full rotation of three different songs has been played.
RotationDone ==
  /\ probe.on
  /\ probe.n = Len(probe.queue) + 1
  /\ Len(probe.queue) = 2
  /\ Cardinality({probe.cur, probe.queue[1], probe.queue[2]}) = 3
  /\ tasks[1] = EmptyBag

\* The step is the get_next of a process_queue of chat c.
DequeueStep(c) ==
  last'.op = "advance" /\ last'.chat = c /\ last'.res \in {"Dequeued", "QueueEmpty"}

\* The step hands song s of chat c to a process_queue for its download.
Hands(c, s) ==
  CopiesIn(Task("resolve", s), tasks'[c]) > CopiesIn(Task("resolve", s), tasks[c])

\* C11: under loop mode QUEUE, get_next with current = cur and queue = q returns
\* the head of q ++ [cur] and leaves the tail of q ++ [cur]: the song returned
\* followed by the queue left is q ++ [cur], so nothing is lost.
QueueLoopAppendsCurrent ==
  [][\A c \in Chats :
       (DequeueStep(c) /\ loop_mode[c] = "QUEUE" /\ current[c] # NoSong)
         => \E s \in ShortSongs :
              /\ Hands(c, s)
              /\ <<s>> \o queue'[c] = Append(queue[c], current[c])]_vars

\* Under QUEUE a get_next has put the current song at the tail of a queue that
\* held other songs and has returned another song than the current one.
QueueLoopAppended ==
  /\ last.op = "advance" /\ last.res = "Dequeued"
  /\ loop_mode[1] = "QUEUE" /\ current[1] # NoSong
  /\ Len(queue[1]) >= 2 /\ queue[1][Len(queue[1])] = current[1]
  /\ \E tk \in BagToSet(tasks[1]) : tk.pc = "resolve" /\ tk.song # current[1]

\* C12 (as stated): under loop mode SINGLE every get_next leaves the queue
\* unchanged and every advance keeps current unchanged.
SingleLoopRepeats ==
  [][\A c \in Chats :
       loop_mode[c] = "SINGLE"
         => queue'[c] = queue[c] /\ current'[c] = current[c]]_vars

\* C12 (amended): under loop mode SINGLE with a current song every get_next
\* returns current and leaves the queue unchanged, and every advance keeps
\* current unchanged.
SingleLoopRepeatsCurrent ==
  [][\A c \in Chats :
       (loop_mode[c] = "SINGLE" /\ current[c] # NoSong)
         => /\ queue'[c] = queue[c]
            /\ current'[c] = current[c]
            /\ DequeueStep(c) => Hands(c, current[c])]_vars

\* Under SINGLE a get_next has returned the current song again and has left a
\* queued song where it was.
SingleLoopRepeated ==
  /\ last.op = "advance" /\ last.res = "Dequeued"
  /\ loop_mode[1] = "SINGLE" /\ current[1] # NoSong /\ queue[1] # <<>>
  /\ tasks[1] = SetToBag({Task("resolve", current[1])})

\* C13: whatever the state of the session, a call of clear() leaves it STOPPED
\* with current None and an empty queue.  clear() is called by a stop whose
\* leave succeeded, by on_kicked, by on_closed_vc and by the process_queue
\* that found nothing to play.
ClearYieldsDefaults ==
  \A c \in Chats :
    (/\ last.chat = c
     /\ \/ last.op \in {"kicked", "closed"}
        \/ last.op = "stop" /\ last.res = "Stopped"
        \/ last.op = "advance" /\ last.res = "QueueFinished")
      => Cleared(c)

\* A stop has cleared a session while a process_queue of it was in flight; the
\* loop mode is the one clear() found.
ClearedWhileAdvancing ==
  /\ last.op = "stop" /\ last.res = "Stopped"
  /\ Cleared(1)
  /\ loop_mode[1] = "QUEUE"
  /\ tasks[1] # EmptyBag

\* C14: with loop mode OFF and every download and stream start succeeding, the
\* songs queued on a STOPPED session become current in the order they were
\* queued, each once, the first on the play and each later one after a stream
\* end; the advance that finds the queue empty leaves the session STOPPED with
\* current None once its single leave has returned.
FifoOnePerStreamEnd ==
  [][/\ (last'.op = "advance" /\ last'.res = "NowPlaying")
         => /\ probe.n < Len(probe.queue)
            /\ current'[1] = probe.queue[probe.n + 1]
            /\ probe.n > 0 => ~fresh[1]
     /\ (last'.op = "advance" /\ last'.res \in {"QueueFinished", "LeaveFailed"})
         => /\ probe.n = Len(probe.queue)
            /\ state'[1] = "STOPPED" /\ current'[1] = NoSong]_vars

\* The songs an advance is to take one after the other, on the session its
\* scenario began with: the dequeued item first, then the queued items (under
\* QUEUE the current song is queued last).
Lineup ==
  IF probe.cur # NoSong /\ loop_mode[1] = "QUEUE" THEN Append(probe.queue, probe.cur)
  ELSE IF probe.cur # NoSong /\ loop_mode[1] = "SINGLE"
    THEN <<probe.cur>> \o probe.queue
  ELSE probe.queue

\* C15: when the download of the dequeued item A fails and that of the next
\* queued item B succeeds, the same advance starts B: afterwards current is B,
\* the state is PLAYING and A is neither current nor in the queue.
FailedItemThenNext ==
  [][(/\ last'.op = "advance" /\ last'.res = "NowPlaying"
      /\ probe.tries = 1
      /\ Len(Lineup) >= 2
      /\ probe.failed = Lineup[1]
      /\ \A i \in 2..Len(Lineup) : Lineup[i] # Lineup[1])
       => /\ current'[1] = Lineup[2]
          /\ state'[1] = "PLAYING"
          /\ current'[1] # probe.failed
          /\ \A i \in 1..Len(queue'[1]) : queue'[1][i] # probe.failed]_vars

\* C16: an advance whose downloads all fail makes at most as many attempts as
\* the session held songs when it began (the queued ones and the current one),
\* under every loop mode and with or without a current song, and it ends with
\* the session STOPPED.
FailingAdvanceBounded ==
  /\ probe.on =>
       probe.tries <= Len(probe.queue) + (IF probe.cur # NoSong THEN 1 ELSE 0)
  /\ (/\ probe.on /\ probe.tries > 0 /\ probe.n = 0
      /\ last.op = "advance" /\ last.res \in {"QueueFinished", "LeaveFailed"})
       => state[1] = "STOPPED"

\* C17: when start_playback fails in an advance the session is not left in
\* state PLAYING without a running stream.
FailedStartRollsBack ==
  [][\A c \in Chats :
       (last'.op = "advance" /\ last'.chat = c /\ last'.res = "PlaybackError")
         => ~(state'[c] = "PLAYING" /\ call'[c] # "streaming")]_vars

\* C18: a pause issued while the state is not PLAYING does not answer "Paused"
\* and leaves state and current unchanged.
PauseOnlyWhenPlaying ==
  [][\A c \in Chats :
       (last'.op = "pause" /\ last'.chat = c /\ state[c] # "PLAYING")
         => /\ last'.res # "Paused"
            /\ state'[c] = state[c]
            /\ current'[c] = current[c]]_vars

\* C19: a resume issued while the state is not PAUSED does not answer "Resumed"
\* and leaves state and current unchanged.
ResumeOnlyWhenPaused ==
  [][\A c \in Chats :
       (last'.op = "resume" /\ last'.chat = c /\ state[c] # "PAUSED")
         => /\ last'.res # "Resumed"
            /\ state'[c] = state[c]
            /\ current'[c] = current[c]]_vars

\* C20: a skip by command or by button on a session with no current song
\* answers NothingPlaying, starts no process_queue and leaves the queue, current,
\* the state and the transport's call as they were.
SkipNeedsCurrent ==
  [][\A c \in Chats :
       (last'.op \in {"skip", "cbskip"} /\ last'.chat = c /\ current[c] = NoSong)
         => /\ last'.res = "NothingPlaying"
            /\ SessionUnchanged(c)
            /\ call'[c] = call[c]]_vars

\* C21: after on_kicked or on_closed_vc the session is STOPPED with current None
\* and an empty queue, and with no enqueue it stays so, also when an advance
\* was in flight: the step that follows the event leaves the session cleared.
KickedStaysStopped ==
  [][\A c \in Chats :
       (last.op \in {"kicked", "closed"} /\ last.chat = c)
         => /\ Cleared(c)
            /\ (last'.op \notin {"play", "cbplay"}) => Cleared(c)']_vars

\* How often song s occurs in the sequence q.
Count(q, s) == Cardinality({i \in 1..Len(q) : q[i] = s})

\* C22: a shuffle leaves current, state and loop mode unchanged and the queue
\* after it holds the songs of the queue before it, each as often; on an empty
\* queue it answers QueueEmpty and changes nothing.
ShufflePermutes ==
  [][\A c \in Chats :
       (last'.op = "shuffle" /\ last'.chat = c)
         => /\ current'[c] = current[c]
            /\ state'[c] = state[c]
            /\ loop_mode'[c] = loop_mode[c]
            /\ Len(queue'[c]) = Len(queue[c])
            /\ \A s \in ShortSongs : Count(queue'[c], s) = Count(queue[c], s)
            /\ (last'.res = "QueueEmpty") <=> (queue[c] = <<>>)]_vars

\* A queue of different songs has been shuffled while a song was current.
ShuffledSeen ==
  /\ last.op = "shuffle" /\ last.res = "Shuffled"
  /\ current[1] # NoSong
  /\ Len(queue[1]) >= 2 /\ queue[1][1] # queue[1][2]

\* C23: remove with the user's position p (index p - 1) inside the queue takes
\* out exactly the song at that position and keeps the order of the others; with
\* an index out of range, position 0 included, it answers "Invalid position"
\* and leaves the queue as it was; current and the state are unchanged.
RemoveExact ==
  [][\A c \in Chats :
       (last'.op = "remove" /\ last'.chat = c)
         => LET q == queue[c]
                p == last'.arg
            IN  /\ current'[c] = current[c]
                /\ state'[c] = state[c]
                /\ IF 1 <= p /\ p <= Len(q)
                     THEN /\ last'.res = "Removed"
                          /\ queue'[c] = SubSeq(q, 1, p - 1) \o SubSeq(q, p + 1, Len(q))
                     ELSE /\ last'.res = "InvalidPosition"
                          /\ queue'[c] = q]_vars

\* The first of several queued songs has been removed.
RemovedSeen ==
  /\ last.op = "remove" /\ last.res = "Removed" /\ last.arg = 1
  /\ queue[1] # <<>>

RefusedChangesNothing ==
  [][\A c \in Chats :
       (last'.op = "refused" /\ last'.chat = c)
         => /\ SessionUnchanged(c)
            /\ call' = call
            /\ active_calls' = active_calls]_vars

\* A command was refused on a session that is paused with songs queued.
RefusedSeen ==
  /\ last.op = "refused"
  /\ state[1] = "PAUSED" /\ current[1] # NoSong /\ queue[1] # <<>>

\* C29: a play on a STOPPED session starts one advance; a play that arrives
\* while a process_queue of the session is in flight only adds to the queue.
PlayStartsOneAdvance ==
  [][\A c \in Chats :
       (last'.op = "play" /\ last'.chat = c /\ tasks[c] # EmptyBag)
         => tasks'[c] = tasks[c]]_vars

\* C30: after a stop, on_kicked or on_closed_vc every field of the session has
\* its default: queue empty, current None, state STOPPED, loop mode OFF.
StopResetsAllFields ==
  \A c \in Chats :
    (/\ last.chat = c
     /\ \/ last.op \in {"stop", "kicked", "closed"}
        \/ last.op = "reap" /\ last.res # "Selected")
      => Cleared(c) /\ loop_mode[c] = "OFF"

\* The step is the stop of chat c by a sweep of auto_leave_inactive.
ReapStopStep(c) ==
  last'.op = "reap" /\ last'.chat = c /\ last'.res \in {"Left", "LeftLeaveFailed"}

\* C24: a sweep of auto_leave_inactive stops a session (leave, clear,
\* notification) only if the session is STOPPED at the moment it is stopped,
\* never one that is PLAYING or PAUSED by then.
ReaperStopsOnlyStopped ==
  [][\A c \in Chats : ReapStopStep(c) => state[c] = "STOPPED"]_vars

\* C25: when a sweep has stopped a session and no user action follows, the
\* next sweep does nothing for that session, also when the leave of the first
\* sweep failed: the step after the stop is not a selection of the same chat.
ReaperIdempotent ==
  [][\A c \in Chats :
       (last.op = "reap" /\ last.chat = c /\ last.res \in {"Left", "LeftLeaveFailed"})
         => ~(last'.op = "reap" /\ last'.chat = c /\ last'.res = "Selected")]_vars

\* Video v has a file that a song of some session refers to: the song is
\* current or queued and its file_path is set.
Referenced(v) ==
  /\ v \in disk.paths
  /\ disk.files[v] # "none"
  /\ \E c \in Chats :
       \/ current[c] # NoSong /\ current[c].vid = v
       \/ \E i \in 1..Len(queue[c]) : queue[c][i].vid = v

\* C26: auto_cleanup removes no file that the current or a queued song of a
\* session refers to; what it removes is older than an hour and referred to
\* by no session.
JanitorSparesReferenced ==
  [][\A v \in Vids :
       (disk.files[v] # "none" /\ disk'.files[v] = "none")
         => disk.files[v] = "old" /\ ~Referenced(v)]_vars

\* A pass of auto_cleanup has removed a file left from an earlier run while it
\* kept the file, older than an hour, of a song that is current.
JanitorSeen ==
  /\ last.op = "cleanup"
  /\ \E v \in Vids : disk.files[v] = "none" /\ v \notin disk.cache
  /\ \E v \in Vids : disk.files[v] = "old" /\ Referenced(v) /\ current[1].vid = v

\* The videos that calls of process_queue on chat 1 are seeking a path for.
Fetching == {tk.song.vid : tk \in {x \in BagToSet(tasks[1]) : x.pc = "resolve"}}

\* C31: when a download of a video has succeeded before, a further request
\* for it whose file is still there gets the path without yt-dlp being run
\* and leaves the files as they are; when the file is gone yt-dlp runs again.
FetchIdempotent ==
  [][(tasks' # tasks /\ last'.op = "advance"
        /\ last'.res \in {"Resolved", "ItemSkipped"})
      => \A v \in Fetching :
           v \in disk.cache
             => IF disk.files[v] # "none"
                  THEN /\ last'.res = "Resolved"
                       /\ disk'.how \in {"file_path", "cache"}
                       /\ disk'.files = disk.files
                       /\ disk'.cache = disk.cache
                  ELSE disk'.how = "again"]_vars

\* A video was served from download_cache, its file disappeared, and the next
\* request for it ran yt-dlp again and succeeded.
FetchedAgain ==
  /\ last.op = "advance" /\ last.res = "Resolved"
  /\ disk.how = "again"
  /\ \E tk \in BagToSet(tasks[1]) :
       /\ tk.pc = "stream"
       /\ tk.song.vid \in disk.hits
       /\ disk.files[tk.song.vid] = "new"

\* C32: when the start of the stream for a dequeued song fails, the advance
\* goes on with the next queued song (or ends STOPPED): the call of
\* process_queue that met the failure is still running after it.
StreamFailureAdvances ==
  [][(last'.op = "advance" /\ last'.res = "PlaybackError" /\ tasks' # tasks)
      => \A c \in Chats :
           BagCardinality(tasks'[c]) = BagCardinality(tasks[c])]_vars

\* C33: a pause or resume that the transport fails is answered with the error
\* and leaves state, current and queue as they were.
FailedPauseChangesNothing ==
  [][(last'.op \in {"pause", "resume"} /\ last'.res = "Error")
      => UNCHANGED <<queue, current, state>>]_vars

\* A pause failed on a session that was playing, in a call.
FailedPauseSeen ==
  /\ last.op = "pause" /\ last.res = "Error"
  /\ state[1] = "PLAYING" /\ call[1] = "streaming"
  /\ current[1] # NoSong

\* C34: a session that had a song enqueued less than AUTO_LEAVE_DURATION ago
\* is not selected by a sweep of auto_leave_inactive.
EnqueueDefersReaper ==
  [][(last'.op = "reap" /\ last'.res = "Selected" /\ tasks' # tasks)
      => last'.chat \notin probe.enq]_vars

\* C35: a loop command or button moves the loop mode one step in the cycle
\* OFF, SINGLE, QUEUE, OFF (so three of them restore it) and leaves queue,
\* current and state as they were.
LoopCycles ==
  [][last'.op = "loop"
      => /\ loop_mode[1] = "OFF" => loop_mode'[1] = "SINGLE"
         /\ loop_mode[1] = "SINGLE" => loop_mode'[1] = "QUEUE"
         /\ loop_mode[1] = "QUEUE" => loop_mode'[1] = "OFF"
         /\ UNCHANGED <<queue, current, state>>]_vars

\* A loop command took a session with a pending queue from QUEUE back to OFF
\* while it played.
LoopWrapped ==
  /\ last.op = "loop" /\ last.res = "OFF"
  /\ loop_mode[1] = "OFF"
  /\ state[1] = "PLAYING" /\ current[1] # NoSong /\ queue[1] # <<>>

Held(q, cur, s) == Count(q, s) + (IF cur = s THEN 1 ELSE 0)

\* C37: an advance that ends with a stream started, whatever downloads failed
\* in it, leaves no song more often in queue and current together than it was
\* before the advance.
AdvanceDuplicatesNothing ==
  (probe.on /\ tasks[1] = EmptyBag /\ last.op = "advance" /\ last.res = "NowPlaying")
    => \A s \in ShortSongs :
         Held(queue[1], current[1], s) <= Held(probe.queue, probe.cur, s)

\* C38: the clean command empties the pending queue and nothing else:
\* current, state, loop mode and the transport's call are as they were; on an
\* empty queue it answers that and changes nothing.
CleanEmptiesQueueOnly ==
  [][last'.op = "clean"
      => /\ queue'[last'.chat] = <<>>
         /\ \A c \in Chats \ {last'.chat} : queue'[c] = queue[c]
         /\ UNCHANGED <<current, state, loop_mode, call, active_calls, tasks>>
         /\ last'.res = (IF queue[last'.chat] = <<>> THEN "QueueEmpty" ELSE "Cleared")]_vars

\* A clean has emptied the queue of a session that goes on playing.
CleanedWhilePlaying ==
  /\ last.op = "clean" /\ last.res = "Cleared"
  /\ queue[1] = <<>>
  /\ current[1] # NoSong /\ state[1] = "PLAYING" /\ call[1] = "streaming"

====
